---- MODULE Spec2Model ----
(***************************************************************************)
(* Model of apps/script/import_spans.py: the thread-based stack            *)
(* reconstruction of a call tree from flat span records, and the per-span  *)
(* timestamp rebase used when the spans are re-emitted through a tracer.   *)
(*                                                                         *)
(* The tracer (the OpenTelemetry API) is the program's environment.  Every *)
(* call the program makes on it is appended to `log`:                      *)
(*   begin          tracer.start_span(name, context, kind, start_time)     *)
(*   set_attribute  ot_span.set_attribute(key, value)                      *)
(*   end            ot_span.end(end_time)                                  *)
(*   exit           the release of the `with` block (Span.__exit__), which *)
(*                  ends the scope if it is still open                     *)
(* Each of the first three calls may signal a fault (raise).               *)
(***************************************************************************)
EXTENDS Integers, Sequences, FiniteSets, TLC

VARIABLES
    input,    \* the parsed non-empty lines of the file, in file order
    pc,       \* position of the run inside import_spans / send_span
    spans,    \* import_spans: the list `spans` after loading
    threads,  \* import_spans: `threads`, in dict (first-insertion) order
    ti,       \* index of the current thread in `threads`
    si,       \* index of the current span in the current thread's list
    stack,    \* import_spans: `stack` of the current thread
    frame,    \* the locals of the running send_span call
    log,      \* the calls made on the tracer in this run, in call order
    second,   \* TRUE in the second run of the program on the input
    prevShape \* the calls of the first run, without their timestamps

vars ==
    <<input, pc, spans, threads, ti, si, stack, frame, log, second, prevShape>>

----------------------------------------------------------------------------
(* Bounds of the model *)

MaxRecs == 2
MaxTime == 1
NumThreads == 2
MaxNow == 1
\* timestamps of the two-record files in which spans overlap
MaxOverlapTime == 3

(* Program constants *)

TRACE_ID_HEX_LEN == 32
SPAN_ID_HEX_LEN == 16
TRACE_FLAGS_SAMPLED == 1

----------------------------------------------------------------------------
(* Hex strings are sequences of digits 0..15 *)

Min(a, b) == IF a <= b THEN a ELSE b

Prefix(s, n) == SubSeq(s, 1, Min(n, Len(s)))

\* int(s, 16) raises ValueError on the empty string
HexValueError(s) == s = <<>>

\* int(s, 16): the number the digits denote; "ValueError" stands for the
\* exception raised on the empty string
HexToInt(s) ==
    IF HexValueError(s) THEN "ValueError"
    ELSE LET f[i \in 1..Len(s)] ==
               IF i = 1 THEN s[1] ELSE 16 * f[i - 1] + s[i]
         IN f[Len(s)]

ZeroSpanId == [i \in 1..SPAN_ID_HEX_LEN |-> 0]

----------------------------------------------------------------------------
(* Contexts handed to and returned by the tracer *)

NoneCtx == [type |-> "none"]

\* set_span_in_context(NonRecordingSpan(SpanContext(trace_id, span_id, ...)))
SpanContextCtx(trace_id, span_id) ==
    [type |-> "span_context", trace_id |-> trace_id, span_id |-> span_id,
     is_remote |-> FALSE, trace_flags |-> TRACE_FLAGS_SAMPLED]

\* set_span_in_context(ot_span)
ScopeCtx(scope) == [type |-> "scope", scope |-> scope]

\* truth value of a context object in `parent_ctx if parent_ctx else ...`
Truthy(ctx) == ctx.type # "none"

NoFrame ==
    [context |-> NoneCtx, start_ns |-> 0, end_ns |-> 0,
     scope |-> 0, ai |-> 0, result |-> NoneCtx]

----------------------------------------------------------------------------
(* Input records: one JSON object per non-empty line of the file.          *)
(* A field the JSON object may lack carries a has... flag.  `name` is the  *)
(* record's position in the file, so that it identifies the record in the  *)
(* calls made on the tracer.                                               *)

AttrPool ==
    << [key |-> "k1", value |-> "v1"],
       [key |-> "k1", value |-> "v2"],
       [key |-> "k2", value |-> "v1"] >>

\* The i-th line of a file.  Lines alternate between two traces; the first
\* line has neither an attributes nor a parentSpanId field, line i > 1 has
\* i-1 attributes (with a duplicate key from the third line on) and names
\* the span of the line before as its parent.  thr = 0 stands for a line
\* without a threadId field.
Record(i, thr, st, en) ==
    [name |-> i, traceId |-> <<0, 1 + (i % 2)>>, spanId |-> <<i>>,
     hasThreadId |-> thr # 0, threadId |-> thr,
     startTimeUnixNano |-> st, endTimeUnixNano |-> en,
     hasAttributes |-> i > 1,
     attributes |-> SubSeq(AttrPool, 1, Min(i - 1, Len(AttrPool))),
     parentSpanId |-> IF i = 1 THEN <<>> ELSE <<i - 1>>]

Times == 0..MaxTime

\* threadId of a line: 0 stands for a line without the field
ThreadChoices == 0..NumThreads

MaxOf(S) == IF S = {} THEN 0 ELSE CHOOSE m \in S : \A x \in S : x <= m

\* thread ids are opaque keys: they are numbered in order of first use
Canonical(thr) ==
    \A i \in DOMAIN thr : thr[i] <= 1 + MaxOf({thr[j] : j \in 1..(i - 1)})

\* the file with n lines given by their threadId, start and end choices
InputOf(n, thr, st, en) == [i \in 1..n |-> Record(i, thr[i], st[i], en[i])]

OverlapTimes == 0..MaxOverlapTime

\* two lines of one thread with any starts and ends: with four timestamps
\* the spans can overlap without containment (s1 < s2 < e1 < e2), in either
\* file order
OverlapPair(s1, e1, s2, e2) == << Record(1, 1, s1, e1), Record(2, 1, s2, e2) >>

\* one thread: two spans that overlap without containment, then a span of
\* zero duration that starts when the second ends
OverlapChain ==
    << Record(1, 1, 0, 2), Record(2, 1, 1, 3), Record(3, 1, 3, 3) >>

\* the fields that hold a hex identifier read by send_span
IdFields == {"traceId", "spanId"}

\* the file with the identifier of line k emptied ("traceId": "" or
\* "spanId": "")
EmptyId(lines, k, field) ==
    [i \in 1..Len(lines) |->
       IF i # k THEN lines[i]
       ELSE IF field = "traceId" THEN [lines[i] EXCEPT !.traceId = <<>>]
       ELSE [lines[i] EXCEPT !.spanId = <<>>]]

\* a file of n lines of one thread, with one empty identifier
EmptyIdFile(n, k, field) ==
    EmptyId(InputOf(n, [i \in 1..n |-> 1], [i \in 1..n |-> 0],
                    [i \in 1..n |-> MaxTime]), k, field)

\* spec section 8, scenario 3: one thread, (0,100), (10,50), (60,90)
Scenario3 ==
    << Record(1, 1, 0, 100), Record(2, 1, 10, 50), Record(3, 1, 60, 90) >>

----------------------------------------------------------------------------
(* import_spans, lines 58-67: loading *)

\* `if not span_json.get("parentSpanId")`: absent, null or empty
DefaultParentSpanId(rec) ==
    IF rec.parentSpanId = <<>>
    THEN [rec EXCEPT !.parentSpanId = ZeroSpanId]
    ELSE rec

LoadSpans(lines) == [i \in 1..Len(lines) |-> DefaultParentSpanId(lines[i])]

----------------------------------------------------------------------------
(* build_thread_traces *)

\* threads[span["threadId"]] raises KeyError on a record without the field
MissingThreadId(spanList) ==
    \E i \in 1..Len(spanList) : ~spanList[i].hasThreadId

\* slip: a record replaces its thread's list instead of joining it
AppendToThreadOverwrite(ths, span) ==
    IF \E k \in 1..Len(ths) : ths[k].threadId = span.threadId
    THEN [k \in 1..Len(ths) |->
            IF ths[k].threadId = span.threadId
            THEN [ths[k] EXCEPT !.spans = <<span>>]
            ELSE ths[k]]
    ELSE Append(ths, [threadId |-> span.threadId, spans |-> <<span>>])

\* threads[span["threadId"]].append(span): a defaultdict keeps its keys in
\* order of first insertion
AppendToThread(ths, span) ==
    IF \E k \in 1..Len(ths) : ths[k].threadId = span.threadId
    THEN [k \in 1..Len(ths) |->
            IF ths[k].threadId = span.threadId
            THEN [ths[k] EXCEPT !.spans = Append(@, span)]
            ELSE ths[k]]
    ELSE Append(ths, [threadId |-> span.threadId, spans |-> <<span>>])

RECURSIVE GroupByThread(_, _)
GroupByThread(ths, rest) ==
    IF rest = <<>> THEN ths
    ELSE GroupByThread(AppendToThread(ths, Head(rest)), Tail(rest))

SortKey(span) == span.startTimeUnixNano

\* slip: an unstable sort that puts an element before its equals
InsertSortedUnstable(sorted, x) ==
    LET before == {j \in 1..Len(sorted) : SortKey(sorted[j]) < SortKey(x)}
        k == Cardinality(before)
    IN SubSeq(sorted, 1, k) \o <<x>> \o SubSeq(sorted, k + 1, Len(sorted))

\* list.sort(key=...) is stable: an element goes behind every element whose
\* key is not greater than its own
InsertSorted(sorted, x) ==
    LET before == {j \in 1..Len(sorted) : SortKey(sorted[j]) <= SortKey(x)}
        k == Cardinality(before)
    IN SubSeq(sorted, 1, k) \o <<x>> \o SubSeq(sorted, k + 1, Len(sorted))

RECURSIVE SortByStart(_)
SortByStart(s) ==
    IF s = <<>> THEN <<>>
    ELSE InsertSorted(SortByStart(SubSeq(s, 1, Len(s) - 1)), s[Len(s)])

build_thread_traces(spanList) ==
    LET grouped == GroupByThread(<<>>, spanList)
    IN [k \in 1..Len(grouped) |->
          [threadId |-> grouped[k].threadId,
           spans |-> SortByStart(grouped[k].spans)]]

----------------------------------------------------------------------------
(* The log of tracer calls.  `ok` tells whether the call returned (TRUE)   *)
(* or raised (FALSE).                                                      *)

BeginCall(scope, name, context, start_time, ok) ==
    [op |-> "begin", scope |-> scope, name |-> name, context |-> context,
     start_time |-> start_time, ok |-> ok]

SetAttributeCall(scope, key, value, ok) ==
    [op |-> "set_attribute", scope |-> scope, key |-> key, value |-> value,
     ok |-> ok]

EndCall(scope, end_time, ok) ==
    [op |-> "end", scope |-> scope, end_time |-> end_time, ok |-> ok]

ExitCall(scope) == [op |-> "exit", scope |-> scope, ok |-> TRUE]

\* the scopes begun by the first n calls of lg
BegunIn(lg, n) ==
    {lg[i].scope : i \in {j \in 1..n : lg[j].op = "begin" /\ lg[j].ok}}

\* the scopes ended by the first n calls of lg: by an end call that
\* returned, or by the release of the with block
EndedIn(lg, n) ==
    {lg[i].scope : i \in {j \in 1..n :
                             /\ lg[j].op \in {"end", "exit"}
                             /\ lg[j].ok}}

OpenIn(lg, n) == BegunIn(lg, n) \ EndedIn(lg, n)

OpenScopes == OpenIn(log, Len(log))

\* scope handles are numbered in the order start_span returns them
NewScope(lg) == Cardinality(BegunIn(lg, Len(lg))) + 1

----------------------------------------------------------------------------
(* send_span *)

\* slip: the attributes are taken as a mapping, one entry per key with the
\* last value given for it
AttributesByKey(span) ==
    LET a == IF span.hasAttributes THEN span.attributes ELSE <<>>
        f[i \in 0..Len(a)] ==
          IF i = 0 THEN <<>>
          ELSE IF \E j \in (i + 1)..Len(a) : a[j].key = a[i].key
               THEN f[i - 1]
               ELSE Append(f[i - 1], a[i])
    IN f[Len(a)]

\* line 52: span.get("attributes", [])
Attributes(span) == IF span.hasAttributes THEN span.attributes ELSE <<>>

\* lines 25-38
TraceIdOf(span) == HexToInt(Prefix(span.traceId, TRACE_ID_HEX_LEN))
SpanIdOf(span) == HexToInt(Prefix(span.spanId, SPAN_ID_HEX_LEN))
CurrentCtx(span) == SpanContextCtx(TraceIdOf(span), SpanIdOf(span))

\* lines 25-26: int(..., 16) raises ValueError when the traceId or the
\* spanId of the record is the empty string
IdValueError(span) ==
    \/ HexValueError(Prefix(span.traceId, TRACE_ID_HEX_LEN))
    \/ HexValueError(Prefix(span.spanId, SPAN_ID_HEX_LEN))

\* slip: the start time is not subtracted
DurationNsAbsolute(span) == span.endTimeUnixNano

\* line 41
DurationNs(span) == span.endTimeUnixNano - span.startTimeUnixNano

\* line 42: the values time.time() may return; the second run is made after
\* the first, at later times
Clock == IF second THEN (MaxNow + 1)..(2 * MaxNow + 1) ELSE 0..MaxNow

\* lines 43-44
StartNs(now_ns) == now_ns
EndNs(now_ns, duration_ns) == now_ns + duration_ns

\* line 48
ContextArg(parent_ctx, current_ctx) ==
    IF Truthy(parent_ctx) THEN parent_ctx ELSE current_ctx

----------------------------------------------------------------------------
(* import_spans, lines 72-86 *)

\* slip: the top of the stack is the parent only when the record declares
\* it in parentSpanId
ParentCtxDeclared(stk) ==
    IF stk = <<>> THEN NoneCtx
    ELSE LET top == stk[Len(stk)].ctx
             b == CHOOSE i \in 1..Len(log) :
                    log[i].op = "begin" /\ log[i].ok /\ log[i].scope = top.scope
         IN IF input[log[b].name].spanId = threads[ti].spans[si].parentSpanId
            THEN top ELSE NoneCtx

\* line 75
ParentCtx(stk) == IF stk # <<>> THEN stk[Len(stk)].ctx ELSE NoneCtx

\* slip: the rebased end time of send_span is stored instead of the record's
StackEntryRebased(span, ctx) == [end_ns |-> frame.end_ns, ctx |-> ctx]

\* lines 79-82
StackEntry(span, ctx) == [end_ns |-> span.endTimeUnixNano, ctx |-> ctx]

\* slip: the top's end is compared with the end of the record just pushed
PopCondEnd(stk, span) ==
    stk # <<>> /\ stk[Len(stk)].end_ns <= span.endTimeUnixNano

\* line 85
PopCond(stk, span) ==
    stk # <<>> /\ stk[Len(stk)].end_ns <= span.startTimeUnixNano

\* slip: the while condition has no emptiness test
ReadsTopAlways(stk) == TRUE

\* line 85: `stack and stack[-1][...]` reads the top of the stack only when
\* the stack is not empty
ReadsTop(stk) == stk # <<>>

\* line 85: stack[-1] on an empty list raises IndexError
TopIndexError(stk) == ReadsTop(stk) /\ stk = <<>>

ThreadSpans == threads[ti].spans
CurSpan == ThreadSpans[si]

----------------------------------------------------------------------------
Init ==
    /\ \/ \E n \in 0..MaxRecs :
            \E thr \in [1..n -> ThreadChoices], st \in [1..n -> Times],
               en \in [1..n -> Times] :
               /\ Canonical(thr)
               /\ input = InputOf(n, thr, st, en)
       \/ input = Scenario3
       \/ \E s1, e1, s2, e2 \in OverlapTimes :
            input = OverlapPair(s1, e1, s2, e2)
       \/ input = OverlapChain
       \/ \E n \in 1..MaxRecs, k \in 1..MaxRecs, field \in IdFields :
            k <= n /\ input = EmptyIdFile(n, k, field)
    /\ pc = "load"
    /\ spans = <<>>
    /\ threads = <<>>
    /\ ti = 0
    /\ si = 0
    /\ stack = <<>>
    /\ frame = NoFrame
    /\ log = <<>>
    /\ second = FALSE
    /\ prevShape = <<>>

\* lines 58-67
LoadFile ==
    /\ pc = "load"
    /\ spans' = LoadSpans(input)
    /\ pc' = "build"
    /\ UNCHANGED <<input, threads, ti, si, stack, frame, log,
                   second, prevShape>>

\* line 69
BuildThreads ==
    /\ pc = "build"
    /\ ~MissingThreadId(spans)
    /\ threads' = build_thread_traces(spans)
    /\ ti' = 1
    /\ pc' = "thread"
    /\ UNCHANGED <<input, spans, si, stack, frame, log, second, prevShape>>

\* line 18: KeyError leaves import_spans
BuildThreadsKeyError ==
    /\ pc = "build"
    /\ MissingThreadId(spans)
    /\ pc' = "error"
    /\ UNCHANGED <<input, spans, threads, ti, si, stack, frame, log,
                   second, prevShape>>

\* slip: one stack shared by all threads
EnterThreadSharedStack ==
    /\ pc = "thread"
    /\ ti <= Len(threads)
    /\ si' = 1
    /\ pc' = "span"
    /\ UNCHANGED <<input, spans, threads, ti, stack, frame, log,
                   second, prevShape>>

\* lines 72-73: next thread, with a fresh stack
EnterThread ==
    /\ pc = "thread"
    /\ ti <= Len(threads)
    /\ stack' = <<>>
    /\ si' = 1
    /\ pc' = "span"
    /\ UNCHANGED <<input, spans, threads, ti, frame, log, second, prevShape>>

\* line 72: no thread left
Finish ==
    /\ pc = "thread"
    /\ ti > Len(threads)
    /\ pc' = "done"
    /\ UNCHANGED <<input, spans, threads, ti, si, stack, frame, log,
                   second, prevShape>>

\* line 74: no span left in this thread
LeaveThread ==
    /\ pc = "span"
    /\ si > Len(ThreadSpans)
    /\ ti' = ti + 1
    /\ pc' = "thread"
    /\ UNCHANGED <<input, spans, threads, si, stack, frame, log,
                   second, prevShape>>

\* lines 75-76 and 25-51: choose the parent, enter send_span, sample the
\* clock and begin the scope
StartSpan ==
    /\ pc = "span"
    /\ si <= Len(ThreadSpans)
    /\ ~IdValueError(CurSpan)
    /\ \E now_ns \in Clock :
         LET context == ContextArg(ParentCtx(stack), CurrentCtx(CurSpan))
             scope == NewScope(log)
         IN /\ frame' = [context |-> context,
                         start_ns |-> StartNs(now_ns),
                         end_ns |-> EndNs(now_ns, DurationNs(CurSpan)),
                         scope |-> scope, ai |-> 1, result |-> NoneCtx]
            /\ log' = Append(log, BeginCall(scope, CurSpan.name, context,
                                            StartNs(now_ns), TRUE))
    /\ pc' = "attr"
    /\ UNCHANGED <<input, spans, threads, ti, si, stack, second, prevShape>>

\* lines 25-26: the traceId or the spanId is empty; int raises ValueError
\* before any call on the tracer and the error leaves send_span and
\* import_spans
SendSpanValueError ==
    /\ pc = "span"
    /\ si <= Len(ThreadSpans)
    /\ IdValueError(CurSpan)
    /\ pc' = "error"
    /\ UNCHANGED <<input, spans, threads, ti, si, stack, frame, log,
                   second, prevShape>>

\* lines 46-51: start_span raises; no scope exists, the error leaves
\* send_span and import_spans
StartSpanFault ==
    /\ pc = "span"
    /\ si <= Len(ThreadSpans)
    /\ ~IdValueError(CurSpan)
    /\ \E now_ns \in Clock :
         log' = Append(log, BeginCall(0, CurSpan.name,
                         ContextArg(ParentCtx(stack), CurrentCtx(CurSpan)),
                         StartNs(now_ns), FALSE))
    /\ pc' = "error"
    /\ UNCHANGED <<input, spans, threads, ti, si, stack, frame,
                   second, prevShape>>

\* lines 52-53
SetAttribute ==
    /\ pc = "attr"
    /\ frame.ai <= Len(Attributes(CurSpan))
    /\ LET attr == Attributes(CurSpan)[frame.ai]
       IN log' = Append(log, SetAttributeCall(frame.scope, attr.key,
                                              attr.value, TRUE))
    /\ frame' = [frame EXCEPT !.ai = @ + 1]
    /\ UNCHANGED <<input, pc, spans, threads, ti, si, stack, second, prevShape>>

\* slip: the scope is begun outside a with block, nothing releases it
WithExitNoRelease(lg, fr) == lg

\* the calls made when the with block of lines 46-55 is left: the scope is
\* released
WithExit(lg, fr) == Append(lg, ExitCall(fr.scope))

\* line 53: set_attribute raises; the with block is left, which releases the
\* scope, and the error leaves send_span and import_spans
SetAttributeFault ==
    /\ pc = "attr"
    /\ frame.ai <= Len(Attributes(CurSpan))
    /\ LET attr == Attributes(CurSpan)[frame.ai]
       IN log' = WithExit(Append(log, SetAttributeCall(frame.scope, attr.key,
                                                       attr.value, FALSE)),
                          frame)
    /\ pc' = "error"
    /\ UNCHANGED <<input, spans, threads, ti, si, stack, frame,
                   second, prevShape>>

\* slip: the scope is neither ended nor released before its context is
\* returned (it stays open for the records begun under it)
EndSpanDeferred ==
    /\ pc = "attr"
    /\ frame.ai > Len(Attributes(CurSpan))
    /\ frame' = [frame EXCEPT !.result = ScopeCtx(frame.scope)]
    /\ pc' = "push"
    /\ UNCHANGED <<input, spans, threads, ti, si, stack, log,
                   second, prevShape>>

\* slip: no explicit end call; the scope is closed by the release of the
\* with block alone, at the time of the release
EndSpanImplicit ==
    /\ pc = "attr"
    /\ frame.ai > Len(Attributes(CurSpan))
    /\ log' = WithExit(log, frame)
    /\ frame' = [frame EXCEPT !.result = ScopeCtx(frame.scope)]
    /\ pc' = "push"
    /\ UNCHANGED <<input, spans, threads, ti, si, stack, second, prevShape>>

\* lines 54-55: end the scope with the rebased end time, compute the return
\* value, leave the with block and return
EndSpan ==
    /\ pc = "attr"
    /\ frame.ai > Len(Attributes(CurSpan))
    /\ log' = WithExit(Append(log, EndCall(frame.scope, frame.end_ns, TRUE)),
                       frame)
    /\ frame' = [frame EXCEPT !.result = ScopeCtx(frame.scope)]
    /\ pc' = "push"
    /\ UNCHANGED <<input, spans, threads, ti, si, stack, second, prevShape>>

\* line 54: end raises; the with block is left, which releases the scope,
\* and the error leaves send_span and import_spans
EndSpanFault ==
    /\ pc = "attr"
    /\ frame.ai > Len(Attributes(CurSpan))
    /\ log' = WithExit(Append(log, EndCall(frame.scope, frame.end_ns, FALSE)),
                       frame)
    /\ pc' = "error"
    /\ UNCHANGED <<input, spans, threads, ti, si, stack, frame,
                   second, prevShape>>

\* lines 76-82
Push ==
    /\ pc = "push"
    /\ stack' = Append(stack, StackEntry(CurSpan, frame.result))
    /\ pc' = "pop"
    /\ UNCHANGED <<input, spans, threads, ti, si, frame, log,
                   second, prevShape>>

\* lines 85-86: one iteration of the while loop
Pop ==
    /\ pc = "pop"
    /\ PopCond(stack, CurSpan)
    /\ stack' = SubSeq(stack, 1, Len(stack) - 1)
    /\ UNCHANGED <<input, pc, spans, threads, ti, si, frame, log,
                   second, prevShape>>

\* line 85: the while condition is false; on to the next span (an
\* IndexError raised by the condition would leave import_spans)
PopDone ==
    /\ pc = "pop"
    /\ ~PopCond(stack, CurSpan)
    /\ IF TopIndexError(stack)
       THEN pc' = "error" /\ UNCHANGED si
       ELSE pc' = "span" /\ si' = si + 1
    /\ UNCHANGED <<input, spans, threads, ti, stack, frame, log,
                   second, prevShape>>

\* a call without the absolute timestamps it carries
EraseTimes(call) ==
    IF call.op = "begin" THEN [call EXCEPT !.start_time = 0]
    ELSE IF call.op = "end" THEN [call EXCEPT !.end_time = 0]
    ELSE call

Shape(lg) == [i \in 1..Len(lg) |-> EraseTimes(lg[i])]

\* lines 88-106: the program is run a second time on the same file; nothing
\* but the file is carried over (the shape of the first run's calls is kept
\* aside for comparison only)
Rerun ==
    /\ pc = "done"
    /\ ~second
    /\ second' = TRUE
    /\ prevShape' = Shape(log)
    /\ pc' = "load"
    /\ spans' = <<>>
    /\ threads' = <<>>
    /\ ti' = 0
    /\ si' = 0
    /\ stack' = <<>>
    /\ frame' = NoFrame
    /\ log' = <<>>
    /\ UNCHANGED input

Next ==
    \/ LoadFile
    \/ BuildThreads
    \/ BuildThreadsKeyError
    \/ EnterThread
    \/ Finish
    \/ LeaveThread
    \/ StartSpan
    \/ SendSpanValueError
    \/ StartSpanFault
    \/ SetAttribute
    \/ SetAttributeFault
    \/ EndSpan
    \/ EndSpanFault
    \/ Push
    \/ Pop
    \/ PopDone
    \/ Rerun

Spec == Init /\ [][Next]_vars

\* one run of the program
NextOnce ==
    \/ LoadFile
    \/ BuildThreads
    \/ BuildThreadsKeyError
    \/ EnterThread
    \/ Finish
    \/ LeaveThread
    \/ StartSpan
    \/ SendSpanValueError
    \/ StartSpanFault
    \/ SetAttribute
    \/ SetAttributeFault
    \/ EndSpan
    \/ EndSpanFault
    \/ Push
    \/ Pop
    \/ PopDone

SpecOnce == Init /\ [][NextOnce]_vars

----------------------------------------------------------------------------
(* Two files that differ in parentSpanId only *)

\* a spanId that no record of a file carries
UnknownSpanId == <<15, 15>>

\* The forms a parentSpanId takes (line 65): absent, the all-zero sentinel,
\* the spanId of no record, the spanId of another record of the file.  The
\* form given to a line rotates with the line number, from the shift on.
ParentForm(lines, i, shift) ==
    CASE (i + shift) % 4 = 0 -> <<>>
      [] (i + shift) % 4 = 1 -> ZeroSpanId
      [] (i + shift) % 4 = 2 -> UnknownSpanId
      [] OTHER -> lines[(i % Len(lines)) + 1].spanId

ParentShifts == {1, 2}

\* the file with every parentSpanId rewritten
Reparent(lines, shift) ==
    [i \in 1..Len(lines) |->
       [lines[i] EXCEPT !.parentSpanId = ParentForm(lines, i, shift)]]

\* lines 88-106: the program is run a second time, on a file that differs
\* from the first in its parentSpanId values only
RerunReparented ==
    /\ pc = "done"
    /\ ~second
    /\ second' = TRUE
    /\ prevShape' = Shape(log)
    /\ \E shift \in ParentShifts : input' = Reparent(input, shift)
    /\ pc' = "load"
    /\ spans' = <<>>
    /\ threads' = <<>>
    /\ ti' = 0
    /\ si' = 0
    /\ stack' = <<>>
    /\ frame' = NoFrame
    /\ log' = <<>>

NextParents ==
    \/ LoadFile
    \/ BuildThreads
    \/ BuildThreadsKeyError
    \/ EnterThread
    \/ Finish
    \/ LeaveThread
    \/ StartSpan
    \/ SendSpanValueError
    \/ StartSpanFault
    \/ SetAttribute
    \/ SetAttributeFault
    \/ EndSpan
    \/ EndSpanFault
    \/ Push
    \/ Pop
    \/ PopDone
    \/ RerunReparented

SpecParents == Init /\ [][NextParents]_vars

----------------------------------------------------------------------------
(* Reading the log *)

\* positions of the begin calls that returned a scope
Begins(lg) == {i \in 1..Len(lg) : lg[i].op = "begin" /\ lg[i].ok}

\* the records (by name) for which a scope was begun
Emitted(lg) == {lg[i].name : i \in Begins(lg)}

BeginOfScope(lg, scope) == CHOOSE i \in Begins(lg) : lg[i].scope = scope
BeginOfRecord(lg, nm) == CHOOSE i \in Begins(lg) : lg[i].name = nm

\* the record under which record nm was begun; 0 when it was begun under no
\* scope
ParentOf(lg, nm) ==
    LET c == lg[BeginOfRecord(lg, nm)].context
    IN IF c.type = "scope" THEN lg[BeginOfScope(lg, c.scope)].name ELSE 0

\* the record of the input that carries name nm
Rec(nm) == input[nm]

Completed(a, b) == Rec(a).endTimeUnixNano <= Rec(b).startTimeUnixNano

Contains(a, b) ==
    /\ Rec(a).startTimeUnixNano <= Rec(b).startTimeUnixNano
    /\ Rec(b).endTimeUnixNano <= Rec(a).endTimeUnixNano

SameThread(a, b) == Rec(a).threadId = Rec(b).threadId

----------------------------------------------------------------------------
WellFormed(a) == Rec(a).startTimeUnixNano <= Rec(a).endTimeUnixNano

(* C1: the parent assigned to a record is never a record that had already  *)
(* completed (end <= the record's start) when the record started, here for *)
(* records that satisfy the data model (start <= end); on the thread       *)
(* (0,100), (10,50), (60,90) the second and the third record are both      *)
(* parented under the first.                                               *)
C1_ParentStillOpen ==
    /\ \A b \in Emitted(log) :
          LET a == ParentOf(log, b)
          IN (a # 0 /\ WellFormed(a) /\ WellFormed(b)) => ~Completed(a, b)
    /\ (input = Scenario3 /\ pc = "done") =>
          (ParentOf(log, 2) = 1 /\ ParentOf(log, 3) = 1)

(* C2: if record A's interval contains record B's interval on the same     *)
(* thread, B's parent is A.  Stated for the case that leaves no doubt      *)
(* about which record is meant: A starts strictly before B, has not ended  *)
(* when B starts, and is the only record of the thread that contains B.    *)
C2_ContainerIsParent ==
    pc = "done" =>
      \A a, b \in Emitted(log) :
        ( /\ a # b
          /\ SameThread(a, b)
          /\ Contains(a, b)
          /\ Rec(a).startTimeUnixNano < Rec(b).startTimeUnixNano
          /\ Rec(b).startTimeUnixNano < Rec(a).endTimeUnixNano
          /\ \A c \in Emitted(log) \ {a, b} :
                ~(SameThread(c, b) /\ Contains(c, b)) )
        => ParentOf(log, b) = a

----------------------------------------------------------------------------
\* positions of the begin calls made with a scope as parent
ChildBegins(lg) == {i \in Begins(lg) : lg[i].context.type = "scope"}

(* C3, as claimed: whenever a scope is begun with a parent scope, the      *)
(* parent scope is open at that moment (begun, not yet ended).             *)
C3_ParentOpenAtBegin ==
    \A i \in ChildBegins(log) : log[i].context.scope \in OpenIn(log, i - 1)

(* C3, amended: whenever a scope is begun with a parent scope, the parent  *)
(* scope was begun and has already been ended in its own record's step;    *)
(* the stack holds contexts of ended scopes only.                          *)
C3_ParentEndedAtBegin ==
    /\ \A i \in ChildBegins(log) :
          /\ log[i].context.scope \in BegunIn(log, i - 1)
          /\ log[i].context.scope \in EndedIn(log, i - 1)
    /\ \A k \in 1..Len(stack) :
          /\ stack[k].ctx.type = "scope"
          /\ stack[k].ctx.scope \in EndedIn(log, Len(log))

C3_Witness ==
    /\ pc = "done"
    /\ Len(stack) >= 2
    /\ ChildBegins(log) # {}

(* C4: exactly one scope is begun per loaded record and no other scope:    *)
(* never two for one record, never one for anything but a record of the    *)
(* input; a completed run has begun as many scopes as there are records,   *)
(* and on an empty input it completes without any begin call.              *)
C4_OneScopePerRecord ==
    /\ \A i \in Begins(log) : log[i].name \in 1..Len(input)
    /\ \A i, j \in Begins(log) : log[i].name = log[j].name => i = j
    /\ pc = "done" =>
          /\ Emitted(log) = 1..Len(input)
          /\ Cardinality(Begins(log)) = Len(input)
          /\ \A i \in 1..Len(log) : log[i].op = "begin" => log[i].ok
    /\ input = <<>> => (log = <<>> /\ pc # "error")

\* C4's second case is reached as well: the run on the empty file completes
C4_EmptyWitness == input = <<>> /\ pc = "done"

C4_Witness ==
    /\ pc = "done"
    /\ Len(input) = MaxRecs
    /\ Len(threads) = 2
    /\ \E i \in 1..(Len(input) - 1) :
          input[i].startTimeUnixNano > input[i + 1].startTimeUnixNano

\* positions of the end calls that returned
Ends(lg) == {i \in 1..Len(lg) : lg[i].op = "end" /\ lg[i].ok}

(* C5: for every emitted record, the end time given to end-scope minus the *)
(* start time given to begin-scope is the record's endTimeUnixNano minus   *)
(* its startTimeUnixNano, whatever the sampled current time.               *)
C5_DurationPreserved ==
    \A i \in 1..Len(log) :
      log[i].op = "end" =>
        LET b == log[BeginOfScope(log, log[i].scope)]
        IN log[i].end_time - b.start_time =
             Rec(b.name).endTimeUnixNano - Rec(b.name).startTimeUnixNano

C5_Witness ==
    \E i \in Ends(log) :
      LET b == log[BeginOfScope(log, log[i].scope)]
      IN /\ b.start_time > 0
         /\ Rec(b.name).endTimeUnixNano > Rec(b.name).startTimeUnixNano
         /\ \E j \in Begins(log) : log[j].start_time # b.start_time

(* C6: every scope that was begun is ended on every exit path: when        *)
(* send_span is left (by return or by an error) the record's scope is      *)
(* ended, and no scope is open when an error leaves import_spans.          *)
C6_ScopesClosedOnExit ==
    /\ pc # "attr" => OpenScopes = {}
    /\ pc = "attr" => OpenScopes = {frame.scope}

C6_Witness ==
    /\ pc = "error"
    /\ Cardinality(Begins(log)) >= 2
    /\ \E i \in 1..Len(log) :
          log[i].op \in {"set_attribute", "end"} /\ ~log[i].ok

(* C7: every begin-scope call carries the trace identity and the span      *)
(* identity of the record being emitted, with a parent as well as without. *)
C7_BeginCarriesIdentity ==
    \A i \in Begins(log) :
      /\ log[i].context.type = "span_context"
      /\ log[i].context.trace_id = TraceIdOf(Rec(log[i].name))
      /\ log[i].context.span_id = SpanIdOf(Rec(log[i].name))

(* C8: the scope of a record is ended after it is begun and before the     *)
(* scope of any later record is begun: at most one scope is open at any    *)
(* moment of a run.                                                        *)
C8_OneOpenScope ==
    /\ Cardinality(OpenScopes) <= 1
    /\ \A i \in Begins(log) : OpenIn(log, i - 1) = {}
    /\ \A i \in 1..Len(log) :
          log[i].op \in {"end", "exit"} =>
            log[i].scope \in BegunIn(log, i - 1)

C8_Witness ==
    /\ Cardinality(Begins(log)) = MaxRecs
    /\ Cardinality(OpenScopes) = 1

(* C9: two runs on the same input, whatever current-time values they       *)
(* sample, emit the records in the same order with the same parents: the   *)
(* calls of the second run are those of the first up to the timestamps.    *)
C9_SameShape ==
    (second /\ pc = "done") => Shape(log) = prevShape

C9_Witness ==
    /\ second
    /\ pc = "done"
    /\ ChildBegins(log) # {}
    /\ \E i, j \in Begins(log) : log[i].start_time # log[j].start_time
    /\ \A i \in Begins(log) : log[i].start_time > MaxNow

(* C10: a record whose endTimeUnixNano is less than its startTimeUnixNano  *)
(* is rejected: no scope is begun for it, and every scope is ended at a    *)
(* time >= the time it was begun at.                                       *)
C10_MalformedRejected ==
    /\ \A i \in Begins(log) : WellFormed(log[i].name)
    /\ \A i \in Ends(log) :
          log[i].end_time >= log[BeginOfScope(log, log[i].scope)].start_time

----------------------------------------------------------------------------
\* a call on the tracer raised
TracerFault == \E i \in 1..Len(log) : ~log[i].ok

\* an exception that left import_spans came from a tracer call, from line 18
\* or from lines 25-26
RaisedOutsideLoop ==
    \/ TracerFault
    \/ MissingThreadId(spans)
    \/ (pc \in {"span", "error"} /\ threads # <<>> /\ IdValueError(CurSpan))

\* the run has left import_spans
Terminated == pc \in {"done", "error"}

\* A measure of the work left, compared lexicographically: runs left,
\* thread-loop steps left, spans left in the thread, steps left in the
\* span's iteration, and steps left in the attribute loop or the pop loop.
Rank ==
    << IF second THEN 0 ELSE 1,
       CASE pc = "load" -> 2 * Len(input) + 4
         [] pc = "build" -> 2 * Len(input) + 3
         [] pc = "thread" -> 2 * (Len(threads) - ti + 1) + 1
         [] pc \in {"span", "attr", "push", "pop"} ->
              2 * (Len(threads) - ti + 1)
         [] OTHER -> 0,
       IF pc \in {"span", "attr", "push", "pop"}
       THEN Len(ThreadSpans) - si + 1 ELSE 0,
       CASE pc = "span" -> 4
         [] pc = "attr" -> 3
         [] pc = "push" -> 2
         [] pc = "pop" -> 1
         [] OTHER -> 0,
       CASE pc = "attr" -> Len(Attributes(CurSpan)) - frame.ai + 1
         [] pc = "pop" -> Len(stack)
         [] OTHER -> 0 >>

LexLess(x, y) ==
    \E k \in 1..Len(x) :
      /\ x[k] < y[k]
      /\ \A j \in 1..(k - 1) : x[j] = y[j]

RankOk == \A k \in 1..Len(Rank) : Rank[k] >= 0

(* C11: the push/pop/parent-selection loop is total and terminates for     *)
(* every timestamp ordering: a run that has not ended can always take its  *)
(* next step, every step lowers a measure that is bounded below (so a run  *)
(* ends after finitely many steps), and a run ends in error only when a    *)
(* tracer call raised, a line has no threadId or the record to be sent has *)
(* an empty traceId or spanId, never because the pop loop read an empty    *)
(* stack.                                                                  *)
C11_LoopTotal ==
    /\ [](Terminated \/ ENABLED NextOnce)
    /\ [](RankOk /\ (pc = "error" => RaisedOutsideLoop))
    /\ [][LexLess(Rank', Rank)]_vars

\* record a overlaps record b of its thread without containing it
OverlapsWithoutContainment(a, b) ==
    /\ SameThread(a, b)
    /\ Rec(a).startTimeUnixNano < Rec(b).startTimeUnixNano
    /\ Rec(b).startTimeUnixNano < Rec(a).endTimeUnixNano
    /\ Rec(a).endTimeUnixNano < Rec(b).endTimeUnixNano

\* in a thread with two spans that overlap without containment, the pop
\* loop, run for a span of zero duration, has emptied a stack of three and
\* tests its condition on the empty stack
C11_Witness ==
    /\ pc = "pop"
    /\ stack = <<>>
    /\ si >= 3
    /\ ~PopCond(stack, CurSpan)
    /\ CurSpan.startTimeUnixNano = CurSpan.endTimeUnixNano
    /\ \E a, b \in Emitted(log) : OverlapsWithoutContainment(a, b)

----------------------------------------------------------------------------
(* C12: within each threadId group the records are emitted in ascending    *)
(* startTimeUnixNano order, and records with equal start values are        *)
(* emitted in their original input order (Rec(n).name = n is the line      *)
(* number of the record in the input).                                     *)
C12_SortedStableEmission ==
    \A i, j \in Begins(log) :
      (i < j /\ SameThread(log[i].name, log[j].name)) =>
        /\ Rec(log[i].name).startTimeUnixNano
             <= Rec(log[j].name).startTimeUnixNano
        /\ Rec(log[i].name).startTimeUnixNano
             = Rec(log[j].name).startTimeUnixNano
           => log[i].name < log[j].name

\* two records of one thread with the same start have both been emitted
C12_Witness ==
    /\ pc = "done"
    /\ \E a, b \in Emitted(log) :
         /\ a < b
         /\ SameThread(a, b)
         /\ Rec(a).startTimeUnixNano = Rec(b).startTimeUnixNano

----------------------------------------------------------------------------
(* C13: a record that is processed while its thread's stack is empty (in   *)
(* particular the first record of every thread) is begun with no parent:   *)
(* the context given to the begin call is none, not a context that names   *)
(* a span.                                                                 *)
C13_RootBegunWithoutParent ==
    [][(pc = "span" /\ stack = <<>> /\ Len(log') = Len(log) + 1)
         => log'[Len(log')].context.type = "none"]_vars

----------------------------------------------------------------------------
\* the record whose scope a stack entry holds
RecordOfEntry(entry) == log[BeginOfScope(log, entry.ctx.scope)].name

(* C14: the stack is per thread.  It is empty when the processing of a     *)
(* thread starts, it only ever holds scopes of records of the thread being *)
(* processed, and the scope under which a record is begun belongs to a     *)
(* record with the same threadId that was emitted earlier, hence earlier   *)
(* in that thread's sorted order: no record is parented across threads.    *)
C14_StackPerThread ==
    /\ (pc = "span" /\ si = 1) => stack = <<>>
    /\ pc \in {"span", "attr", "push", "pop"} =>
          \A k \in 1..Len(stack) :
            Rec(RecordOfEntry(stack[k])).threadId = threads[ti].threadId
    /\ \A i \in ChildBegins(log) :
          LET j == BeginOfScope(log, log[i].context.scope)
          IN /\ j < i
             /\ SameThread(log[j].name, log[i].name)
             /\ SortKey(Rec(log[j].name)) <= SortKey(Rec(log[i].name))

\* the first thread left an entry on its stack, and the record of the
\* second thread was begun under no scope
C14_Witness ==
    /\ pc = "done"
    /\ Len(threads) = 2
    /\ \E a, b \in Emitted(log) :
         /\ ~SameThread(a, b)
         /\ BeginOfRecord(log, a) < BeginOfRecord(log, b)
         /\ Rec(a).endTimeUnixNano > Rec(a).startTimeUnixNano
         /\ ParentOf(log, b) = 0

----------------------------------------------------------------------------
\* the end calls made on a scope (line 54), returned or raised
EndCallsOn(lg, scope) ==
    {i \in 1..Len(lg) : lg[i].op = "end" /\ lg[i].scope = scope}

\* the scopes whose with block was left with no call on them having raised
NormallyLeft(lg) ==
    LET exited == {lg[i].scope : i \in {j \in 1..Len(lg) : lg[j].op = "exit"}}
        raised == {lg[i].scope : i \in {j \in 1..Len(lg) : ~lg[j].ok}}
    IN exited \ raised

\* the releases of a scope by the with block (lines 46-55)
ReleasesOn(lg, scope) ==
    {i \in 1..Len(lg) : lg[i].op = "exit" /\ lg[i].scope = scope}

\* the calls that close a scope: the end call of line 54 and the release
ClosingCallsOn(lg, scope) == EndCallsOn(lg, scope) \cup ReleasesOn(lg, scope)

\* the rebased end time of the scope begun by call b: the time sampled for
\* the begin plus the record's duration
RebasedEnd(b) ==
    b.start_time
      + (Rec(b.name).endTimeUnixNano - Rec(b.name).startTimeUnixNano)

(* C15: every call that closes a scope supplies the explicit rebased end   *)
(* time (now + duration), and a scope left on the normal path has received *)
(* exactly one closing call.  The release of the with block closes a scope *)
(* too, and carries no end time.                                           *)
C15_EveryCloseExplicit ==
    /\ \A i \in 1..Len(log) : log[i].op \in {"end", "exit"} =>
          /\ log[i].op = "end"
          /\ log[i].end_time = RebasedEnd(log[BeginOfScope(log, log[i].scope)])
    /\ \A sc \in NormallyLeft(log) :
          Cardinality(ClosingCallsOn(log, sc)) = 1

(* C15, amended: every explicit end call (line 54) supplies the rebased    *)
(* end time, the time sampled for the scope's begin plus the record's      *)
(* duration.  A scope receives at most one explicit end call and at most   *)
(* one release, the release after the end call; a scope left on the normal *)
(* path (no call on it raised) has received exactly one explicit end call  *)
(* followed by its release, and a scope released without an explicit end   *)
(* call is one on which a call raised.                                     *)
C15_OneExplicitEnd ==
    /\ \A i \in 1..Len(log) : log[i].op = "end" =>
          log[i].end_time = RebasedEnd(log[BeginOfScope(log, log[i].scope)])
    /\ LET left == NormallyLeft(log)
       IN \A sc \in BegunIn(log, Len(log)) :
            LET ends == EndCallsOn(log, sc)
                rels == ReleasesOn(log, sc)
            IN /\ Cardinality(ends) <= 1
               /\ Cardinality(rels) <= 1
               /\ \A e \in ends : \A r \in rels : e < r
               /\ sc \in left => (Cardinality(ends) = 1 /\ rels # {})
               /\ (rels # {} /\ ends = {}) => sc \notin left

\* two scopes were left normally, one of them begun at a time other than 0
\* for a record that lasts, and a third was released after set_attribute
\* raised, without an end call
C15_Witness ==
    /\ Cardinality(NormallyLeft(log)) >= 2
    /\ \E sc \in BegunIn(log, Len(log)) :
         ReleasesOn(log, sc) # {} /\ EndCallsOn(log, sc) = {}
    /\ \E sc \in NormallyLeft(log) :
         LET b == log[BeginOfScope(log, sc)]
         IN /\ b.start_time > 0
            /\ Rec(b.name).endTimeUnixNano > Rec(b.name).startTimeUnixNano

----------------------------------------------------------------------------
\* the key/value pairs of the set_attribute calls made on a scope (line 53),
\* in the order of the calls
SetAttributeCallsOn(lg, scope) ==
    LET OnScope(call) == call.op = "set_attribute" /\ call.scope = scope
        calls == SelectSeq(lg, OnScope)
    IN [k \in 1..Len(calls) |->
          [key |-> calls[k].key, value |-> calls[k].value]]

(* C16: for every record the set_attribute calls made on its scope are the *)
(* entries of its attributes field, one call per entry, in input order,    *)
(* duplicate keys included; they all come after the scope's begin and      *)
(* before its end call; a record without an attributes field gets no       *)
(* set_attribute call.  While the loop runs the calls made so far are a    *)
(* prefix of the entries; once the end call is made they are all of them.  *)
C16_AttributesInOrder ==
    \A sc \in BegunIn(log, Len(log)) :
      LET b == BeginOfScope(log, sc)
          r == Rec(log[b].name)
          want == IF r.hasAttributes THEN r.attributes ELSE <<>>
          got == SetAttributeCallsOn(log, sc)
          ends == EndCallsOn(log, sc)
      IN /\ Len(got) <= Len(want)
         /\ got = SubSeq(want, 1, Len(got))
         /\ ends # {} => got = want
         /\ \A i \in 1..Len(log) :
               (log[i].op = "set_attribute" /\ log[i].scope = sc) =>
                 (b < i /\ \A e \in ends : i < e)

\* a record with two entries of the same key and a record without an
\* attributes field have both reached their end call
C16_Witness ==
    \E s1, s2 \in BegunIn(log, Len(log)) :
      LET r1 == Rec(log[BeginOfScope(log, s1)].name)
          r2 == Rec(log[BeginOfScope(log, s2)].name)
      IN /\ EndCallsOn(log, s1) # {}
         /\ EndCallsOn(log, s2) # {}
         /\ ~r1.hasAttributes
         /\ r2.hasAttributes
         /\ \E i, j \in 1..Len(r2.attributes) :
              i < j /\ r2.attributes[i].key = r2.attributes[j].key

----------------------------------------------------------------------------
\* a line of the file carries no threadId field
InputLacksThreadId == \E i \in 1..Len(input) : ~input[i].hasThreadId

(* C17: an input in which a record carries no threadId field is processed  *)
(* without error: unless a tracer call raises, the run does not end in     *)
(* error, and when it is done every record has been emitted.               *)
C17_MissingThreadIdAccepted ==
    (InputLacksThreadId /\ ~TracerFault) =>
      /\ pc # "error"
      /\ pc = "done" => Emitted(log) = 1..Len(input)

----------------------------------------------------------------------------
\* every record of the thread ends after it starts
AllLasting(thread) ==
    \A k \in 1..Len(thread.spans) :
      thread.spans[k].endTimeUnixNano > thread.spans[k].startTimeUnixNano

(* C18: the pop loop compares the top of the stack with the start of the   *)
(* record that was just pushed, so an entry whose record ends after it     *)
(* starts is not popped in its own step.  In a thread whose records all    *)
(* end after they start the stack only grows (one entry per record         *)
(* processed) and every record after the first is begun under the record   *)
(* immediately before it in the sorted order: one linear chain per thread. *)
C18_LinearChain ==
    /\ \A t \in 1..Len(threads) :
          AllLasting(threads[t]) =>
            \A k \in 2..Len(threads[t].spans) :
              threads[t].spans[k].name \in Emitted(log) =>
                ParentOf(log, threads[t].spans[k].name)
                  = threads[t].spans[k - 1].name
    /\ (pc \in {"span", "attr", "push"} /\ AllLasting(threads[ti])) =>
          Len(stack) = si - 1
    /\ (pc = "pop" /\ AllLasting(threads[ti])) => Len(stack) = si
    /\ (pc = "pop" /\ CurSpan.endTimeUnixNano > CurSpan.startTimeUnixNano) =>
          (stack # <<>> /\ RecordOfEntry(stack[Len(stack)]) = CurSpan.name)

\* a thread of three lasting records is done: its stack holds all three,
\* and a record was begun under one that had ended before it started
C18_Witness ==
    /\ pc = "done"
    /\ Len(stack) = 3
    /\ \E t \in 1..Len(threads) :
         /\ AllLasting(threads[t])
         /\ \E k \in 2..Len(threads[t].spans) :
              /\ threads[t].spans[k - 1].endTimeUnixNano
                   <= threads[t].spans[k].startTimeUnixNano
              /\ ParentOf(log, threads[t].spans[k].name)
                   = threads[t].spans[k - 1].name

----------------------------------------------------------------------------
\* the records in the order in which their scopes were begun
EmissionOrder(lg) ==
    LET Begun(call) == call.op = "begin" /\ call.ok
        calls == SelectSeq(lg, Begun)
    IN [k \in 1..Len(calls) |-> calls[k].name]

\* the record under which each emitted record was begun (0: under none)
ParentAssignment(lg) == [nm \in Emitted(lg) |-> ParentOf(lg, nm)]

\* the parentSpanId the i-th line of a file of the first run carries
FirstRunParentSpanId(i) == Record(i, 0, 0, 0).parentSpanId

(* C19: parentSpanId has no influence on the output.  A second run on a    *)
(* file that differs from the first in its parentSpanId values only        *)
(* (present or absent, sentinel, resolving, unresolvable) emits the        *)
(* records in the same order and begins each under the same record; the    *)
(* calls of the two runs differ in their timestamps only.                  *)
C19_ParentSpanIdIgnored ==
    (second /\ pc = "done") =>
      /\ EmissionOrder(log) = EmissionOrder(prevShape)
      /\ ParentAssignment(log) = ParentAssignment(prevShape)
      /\ Shape(log) = prevShape

\* the second run is done on a file in which the first line has gained a
\* parentSpanId and a later line has lost or changed its own, and a record
\* was begun under another
C19_Witness ==
    /\ second
    /\ pc = "done"
    /\ Len(input) >= 2
    /\ \A i \in 1..Len(input) :
         input[i].parentSpanId # FirstRunParentSpanId(i)
    /\ \E nm \in Emitted(log) : ParentOf(log, nm) # 0

====
